---- MODULE Spec2Model ----
(***************************************************************************)
(* PerspectiveFields: the evaluation orchestrator                          *)
(* (perspective2d/evaluation/perspective_evaluation.py, PerspectiveEvaluator)*)
(* and the ground-truth transform                                          *)
(* (perspective2d/data/gravity_transform.py, GravityTransform).            *)
(***************************************************************************)
EXTENDS Integers, Sequences, FiniteSets, TLC

(* ------------------------------ bounds --------------------------------- *)
\* number of worker processes (ranks 0 .. NWorkers-1) of a distributed run
NWorkers == 2
\* examples of the dataset being evaluated, shared out among the workers
MaxExamples == 2
\* longest batch handed to process()
MaxBatch == 2
\* evaluate() calls per worker
MaxRounds == 2

\* largest image height and width handed to the transform
MaxDim == 2

Workers == 0 .. (NWorkers - 1)
\* the items of the two arguments of process(inputs, outputs)
Inputs == {"a", "b"}
Outputs == {"p"}
\* the sub-evaluator classes PerspectiveEvaluator can hold
SubEvaluators == {"GravityEvaluator", "LatitudeEvaluator", "ParamEvaluator"}
\* the task names a sub-evaluator may key its partial record with
TaskNames == {"gravity", "latitude", "param"}

VARIABLES
    _distributed,     \* self._distributed
    evaluators,       \* self.evaluators, a list of sub-evaluator classes
    taskName,         \* the key each sub-evaluator writes its payload under
    hasPredictions,   \* per worker: whether self._predictions exists yet
    _predictions,     \* per worker: self._predictions
    pc,               \* per worker: "idle", or the blocking point inside evaluate()
    arrived,          \* per worker: evaluate() calls made
    sent,             \* per worker: buffers handed to comm.gather
    returned,         \* per worker: evaluate() calls that returned a mapping
    slot,             \* per worker: the buffer it handed to comm.gather
    ret,              \* per worker: outcome of its latest call
    reduced,          \* per worker: local `predictions` of its latest evaluate()
    streak,           \* per worker: evaluate() returns since the last reset()/process()
    log,              \* per worker: the (input, output) pairs processed since reset()
    called,           \* per worker: its buffer as it was at each evaluate() call, kept
                      \* until the coordinator's next call after reducing it
    is_train,         \* GravityTransform.is_train
    loss_type,        \* GravityTransform.loss_type
    num_class,        \* GravityTransform.num_class
    request,          \* the GravityTransform call to be made: method and arguments
    call              \* the GravityTransform call made: method and outcome

evalVars == <<_distributed, evaluators, taskName, hasPredictions, _predictions, pc,
              arrived, sent, returned, slot, ret, reduced, streak, log, called>>

transformVars == <<is_train, loss_type, num_class, request, call>>

vars == <<evalVars, transformVars>>

(* ------------------------- python helpers ------------------------------ *)
EmptyDict == [k \in {} |-> 0]

\* a merge that keeps the value already present
DictSetDefault(d, p) ==
    [k \in (DOMAIN d) \cup (DOMAIN p) |-> IF k \in DOMAIN d THEN d[k] ELSE p[k]]

\* d.update(p)
DictUpdate(d, p) ==
    [k \in (DOMAIN d) \cup (DOMAIN p) |-> IF k \in DOMAIN p THEN p[k] ELSE d[k]]

Min(a, b) == IF a <= b THEN a ELSE b

RECURSIVE SumLen(_, _)
\* the records held by the workers 0 .. n
SumLen(f, n) == IF n < 0 THEN 0 ELSE Len(f[n]) + SumLen(f, n - 1)

\* list(zip(inputs, outputs))
Zip(inputs, outputs) ==
    [i \in 1 .. Min(Len(inputs), Len(outputs)) |-> <<inputs[i], outputs[i]>>]

SeqsUpTo(S, n) == UNION {[1 .. m -> S] : m \in 0 .. n}

RetNone == [kind |-> "None", val |-> EmptyDict]
RetDict(d) == [kind |-> "dict", val |-> d]
RetRaise(e) == [kind |-> e, val |-> EmptyDict]

(* --------------------------- sub-evaluators ---------------------------- *)
\* evaluator.process(input, output): a partial record under the task name
SubProcess(e, pair) == [k \in {taskName[e]} |-> <<e, pair>>]

\* evaluator.evaluate(predictions): partial metrics under the task name
SubEvaluate(e, predictions) == [k \in {taskName[e]} |-> <<e, predictions>>]

(* --------------------------- construction ------------------------------ *)
Cfgs ==
    [GRAVITY_ON : BOOLEAN, LATITUDE_ON : BOOLEAN, RECOVER_RPF : BOOLEAN,
     RECOVER_PP : BOOLEAN, FREEZE_HEADS : BOOLEAN, SYNTHETIC_PRETRAIN : BOOLEAN]

\* __init__: the sub-evaluator list
BuildEvaluators(cfg) ==
    LET g == IF cfg.GRAVITY_ON /\ ~cfg.FREEZE_HEADS /\ ~cfg.SYNTHETIC_PRETRAIN
             THEN <<"GravityEvaluator">> ELSE <<>>
        l == IF cfg.LATITUDE_ON /\ ~cfg.FREEZE_HEADS /\ ~cfg.SYNTHETIC_PRETRAIN
             THEN <<"LatitudeEvaluator">> ELSE <<>>
        p == IF cfg.RECOVER_RPF \/ cfg.RECOVER_PP
             THEN <<"ParamEvaluator">> ELSE <<>>
    IN  g \o l \o p

\* the task names of the sub-evaluators: their own, or "gravity" reused
TaskNamings ==
    {f \in [SubEvaluators -> TaskNames] :
        /\ f["GravityEvaluator"] = "gravity"
        /\ f["LatitudeEvaluator"] \in {"latitude", "gravity"}
        /\ f["ParamEvaluator"] \in {"param", "gravity"}}

\* the configuration of the distributed runs: gravity and latitude on, nothing
\* frozen, no parameter recovery
DistCfgs ==
    {cfg \in Cfgs : cfg.GRAVITY_ON /\ cfg.LATITUDE_ON /\ ~cfg.FREEZE_HEADS
                     /\ ~cfg.SYNTHETIC_PRETRAIN /\ ~cfg.RECOVER_RPF /\ ~cfg.RECOVER_PP}

DistNamings ==
    {f \in TaskNamings : f["LatitudeEvaluator"] = "latitude" /\ f["ParamEvaluator"] = "param"}

\* the state after __init__(dataset_name, cfg, distributed)
InitEval(distributed, cfgs, namings) ==
    /\ _distributed = distributed
    /\ \E cfg \in cfgs : evaluators = BuildEvaluators(cfg)
    /\ taskName \in namings
    /\ hasPredictions = [w \in Workers |-> FALSE]
    /\ _predictions = [w \in Workers |-> <<>>]
    /\ pc = [w \in Workers |-> "idle"]
    /\ arrived = [w \in Workers |-> 0]
    /\ sent = [w \in Workers |-> 0]
    /\ returned = [w \in Workers |-> 0]
    /\ slot = [w \in Workers |-> <<>>]
    /\ ret = [w \in Workers |-> RetNone]
    /\ reduced = [w \in Workers |-> <<>>]
    /\ streak = [w \in Workers |-> 0]
    /\ log = [w \in Workers |-> <<>>]
    /\ called = [w \in Workers |-> <<>>]

\* the processes that run: every rank of a distributed run, else the one process
Running == IF _distributed THEN Workers ELSE {0}

\* the coordinator starts a new call: the round it reduced is over
Forget(w) ==
    IF _distributed /\ w = 0 /\ ret[0].kind = "dict"
    THEN [v \in Workers |-> Tail(called[v])]
    ELSE called

(* ------------------------------ reset ---------------------------------- *)
reset(w) ==
    /\ w \in Running
    /\ pc[w] = "idle"
    /\ _predictions' = [_predictions EXCEPT ![w] = <<>>]
    /\ hasPredictions' = [hasPredictions EXCEPT ![w] = TRUE]
    /\ ret' = [ret EXCEPT ![w] = RetNone]
    /\ streak' = [streak EXCEPT ![w] = 0]
    /\ log' = [log EXCEPT ![w] = <<>>]
    /\ reduced' = [reduced EXCEPT ![w] = <<>>]
    /\ called' = Forget(w)
    /\ UNCHANGED <<_distributed, evaluators, taskName, pc, arrived, sent, returned,
                   slot>>
    /\ UNCHANGED transformVars

(* ----------------------------- process --------------------------------- *)
RECURSIVE MergeProcess(_, _, _)
\* ret = {}; for evaluator in self.evaluators[i:]: ret.update(evaluator.process(..))
MergeProcess(acc, i, pair) ==
    IF i > Len(evaluators) THEN acc
    ELSE MergeProcess(DictUpdate(acc, SubProcess(evaluators[i], pair)), i + 1, pair)

RECURSIVE PrependRecords(_, _, _)
\* a loop that inserts each record at the front of the buffer
PrependRecords(buf, pairs, i) ==
    IF i > Len(pairs) THEN buf
    ELSE PrependRecords(<<MergeProcess(EmptyDict, 1, pairs[i])>> \o buf, pairs, i + 1)

RECURSIVE AppendRecords(_, _, _)
\* the loop of process over zip(inputs, outputs), from its i-th pair on
AppendRecords(buf, pairs, i) ==
    IF i > Len(pairs) THEN buf
    ELSE AppendRecords(Append(buf, MergeProcess(EmptyDict, 1, pairs[i])), pairs, i + 1)

process(w, inputs, outputs) ==
    LET pairs == Zip(inputs, outputs) IN
    /\ w \in Running
    /\ pc[w] = "idle"
    /\ SumLen(_predictions, NWorkers - 1) + Len(pairs) <= MaxExamples
    /\ IF Len(pairs) > 0 /\ ~hasPredictions[w]
       THEN \* self._predictions does not exist: AttributeError at the first append
            /\ ret' = [ret EXCEPT ![w] = RetRaise("AttributeError")]
            /\ UNCHANGED <<_predictions, log>>
       ELSE /\ _predictions' =
                   [_predictions EXCEPT ![w] = AppendRecords(_predictions[w], pairs, 1)]
            /\ log' = [log EXCEPT ![w] = log[w] \o pairs]
            /\ ret' = [ret EXCEPT ![w] = RetNone]
    /\ streak' = [streak EXCEPT ![w] = 0]
    /\ reduced' = [reduced EXCEPT ![w] = <<>>]
    /\ called' = Forget(w)
    /\ UNCHANGED <<_distributed, evaluators, taskName, hasPredictions, pc, arrived,
                   sent, returned, slot>>
    /\ UNCHANGED transformVars

(* ----------------------------- evaluate -------------------------------- *)
RECURSIVE MergeEvaluate(_, _, _)
\* results = {}; for evaluator in self.evaluators: results.update(evaluator.evaluate(..))
MergeEvaluate(acc, i, predictions) ==
    IF i > Len(evaluators) THEN acc
    ELSE MergeEvaluate(DictUpdate(acc, SubEvaluate(evaluators[i], predictions)),
                       i + 1, predictions)

\* a gather that fills the coordinator's list from the last rank down
GatherReversed(rank, data) ==
    IF rank = 0 THEN [i \in 1 .. NWorkers |-> data[NWorkers - i]] ELSE <<>>

\* comm.gather(data, dst=0) as seen by `rank`, once every rank has handed in its data
Gather(rank, data) ==
    IF rank = 0 THEN [i \in 1 .. NWorkers |-> data[i - 1]] ELSE <<>>

RECURSIVE Chain(_, _)
\* list(itertools.chain(*lists)), from the i-th list on
Chain(lists, i) ==
    IF i > Len(lists) THEN <<>> ELSE lists[i] \o Chain(lists, i + 1)

\* comm.is_main_process()
is_main_process(w) == w = 0

\* comm.synchronize(): a worker leaves the barrier once every worker has reached it
BarrierOpen(w) == \A v \in Workers : arrived[v] >= arrived[w]

\* a gather that returns without waiting for the other workers
GatherNoWait(w) == TRUE

\* comm.gather: a worker leaves the gather once every worker has handed in its buffer
GatherComplete(w) == \A v \in Workers : sent[v] >= sent[w]

\* an evaluate() that drains the buffer it reduced
BufferDrained(buf) == <<>>

\* self._predictions after evaluate(): evaluate() never assigns it
BufferAfterEvaluate(buf) == buf

\* evaluate() with self._distributed false
EvaluateLocal(w) ==
    /\ ~_distributed
    /\ w \in Running
    /\ pc[w] = "idle"
    /\ arrived[w] < MaxRounds
    /\ arrived' = [arrived EXCEPT ![w] = @ + 1]
    /\ IF ~hasPredictions[w]
       THEN /\ ret' = [ret EXCEPT ![w] = RetRaise("AttributeError")]
            /\ UNCHANGED <<reduced, returned, streak, _predictions>>
       ELSE /\ reduced' = [reduced EXCEPT ![w] = _predictions[w]]
            /\ ret' = [ret EXCEPT ![w] = RetDict(MergeEvaluate(EmptyDict, 1, _predictions[w]))]
            /\ returned' = [returned EXCEPT ![w] = @ + 1]
            /\ streak' = [streak EXCEPT ![w] = @ + 1]
            /\ _predictions' =
                   [_predictions EXCEPT ![w] = BufferAfterEvaluate(_predictions[w])]
    /\ UNCHANGED <<_distributed, evaluators, taskName, hasPredictions, pc, sent, slot,
                   log, called>>
    /\ UNCHANGED transformVars

\* evaluate() with self._distributed true: the call, up to comm.synchronize()
EvaluateEnter(w) ==
    /\ _distributed
    /\ w \in Running
    /\ pc[w] = "idle"
    /\ arrived[w] < MaxRounds
    /\ arrived' = [arrived EXCEPT ![w] = @ + 1]
    /\ pc' = [pc EXCEPT ![w] = "synchronize"]
    /\ ret' = [ret EXCEPT ![w] = RetNone]
    /\ reduced' = [reduced EXCEPT ![w] = <<>>]
    /\ called' = [Forget(w) EXCEPT ![w] = Append(@, _predictions[w])]
    /\ UNCHANGED <<_distributed, evaluators, taskName, hasPredictions, _predictions,
                   sent, returned, slot, streak, log>>
    /\ UNCHANGED transformVars

\* comm.synchronize() releases the worker once every worker has reached it; the
\* worker then reads self._predictions and hands it to comm.gather
EvaluateSynchronize(w) ==
    /\ pc[w] = "synchronize"
    /\ BarrierOpen(w)
    /\ IF ~hasPredictions[w]
       THEN /\ ret' = [ret EXCEPT ![w] = RetRaise("AttributeError")]
            /\ pc' = [pc EXCEPT ![w] = "idle"]
            \* the call failed: no coordinator will reduce its buffer
            /\ called' = [called EXCEPT ![w] = SubSeq(@, 1, Len(@) - 1)]
            /\ UNCHANGED <<slot, sent>>
       ELSE /\ slot' = [slot EXCEPT ![w] = _predictions[w]]
            /\ sent' = [sent EXCEPT ![w] = arrived[w]]
            /\ pc' = [pc EXCEPT ![w] = "gather"]
            /\ UNCHANGED <<ret, called>>
    /\ UNCHANGED <<_distributed, evaluators, taskName, hasPredictions, _predictions,
                   arrived, returned, reduced, streak, log>>
    /\ UNCHANGED transformVars

\* comm.gather completes once every worker has handed in its buffer; then the
\* rest of evaluate()
EvaluateGather(w) ==
    /\ pc[w] = "gather"
    /\ GatherComplete(w)
    /\ LET predictions == Chain(Gather(w, slot), 1) IN
       /\ reduced' = [reduced EXCEPT ![w] = predictions]
       /\ ret' = [ret EXCEPT ![w] =
                    IF ~is_main_process(w) THEN RetDict(EmptyDict)
                    ELSE RetDict(MergeEvaluate(EmptyDict, 1, predictions))]
    \* the coordinator's gather takes the buffers out of the channel
    /\ slot' = IF is_main_process(w) THEN [v \in Workers |-> <<>>] ELSE slot
    /\ pc' = [pc EXCEPT ![w] = "idle"]
    /\ returned' = [returned EXCEPT ![w] = @ + 1]
    /\ streak' = [streak EXCEPT ![w] = @ + 1]
    /\ _predictions' = [_predictions EXCEPT ![w] = BufferAfterEvaluate(_predictions[w])]
    /\ UNCHANGED <<_distributed, evaluators, taskName, hasPredictions, arrived, sent,
                   log, called>>
    /\ UNCHANGED transformVars

NextLocal ==
    \/ \E w \in Workers : reset(w)
    \/ \E w \in Workers : \E inputs \in SeqsUpTo(Inputs, MaxBatch) :
          \E outputs \in [1 .. Len(inputs) -> Outputs] : process(w, inputs, outputs)
    \/ \E w \in Workers : EvaluateLocal(w)

NextDist ==
    \/ \E w \in Workers : reset(w)
    \/ \E w \in Workers : \E inputs \in SeqsUpTo(Inputs, MaxBatch) :
          \E outputs \in [1 .. Len(inputs) -> Outputs] : process(w, inputs, outputs)
    \/ \E w \in Workers : EvaluateEnter(w)
    \/ \E w \in Workers : EvaluateSynchronize(w)
    \/ \E w \in Workers : EvaluateGather(w)

\* no GravityTransform call is made in the evaluation runs
NoCall == [op |-> "none"]

InitNoTransform ==
    /\ is_train = TRUE
    /\ loss_type = "regression"
    /\ num_class = 2
    /\ request = NoCall
    /\ call = NoCall

InitLocal == InitEval(FALSE, Cfgs, TaskNamings) /\ InitNoTransform

InitDist == InitEval(TRUE, DistCfgs, DistNamings) /\ InitNoTransform

\* one process, distributed = False
SpecLocal == InitLocal /\ [][NextLocal]_vars

\* NWorkers processes, distributed = True
SpecDist == InitDist /\ [][NextDist]_vars

(* ======================= GravityTransform ============================== *)
AngleDatasets ==
    {"cities360", "rgbdpano", "sun360", "tartanair", "stanford2d3d", "objectron",
     "gsv", "edina"}

WarpCropDatasets ==
    {"sun360_warp", "sun360_crop", "sun360_uncrop", "tartanair_warp", "tartanair_crop",
     "stanford2d3d_warp", "stanford2d3d_crop", "objectron_crop", "objectron_crop_mask",
     "gsv_crop", "edina_crop"}

SupportedDatasets ==
    AngleDatasets \cup {"hypersim"} \cup WarpCropDatasets
        \cup {"coco-pseudo", "cities360_distort"}

\* names the dispatch does not list
OtherDatasets == {"coco", "kitti"}

Dims == 1 .. MaxDim
\* absolute vanishing points [x, y, scale]
VanishingPoints == {<<x, y, sc>> : x \in -1 .. MaxDim, y \in -1 .. MaxDim, sc \in -2 .. 2}
StoredVPs == {<<0, 0, 1>>, <<1, -1, -1>>}
LossTypes == {"regression", "classification", "l1"}
Architectures == {"PerspectiveNet", "PersFormer", "ParamNetStandalone"}

\* the examples handed to get_input_label
DatasetDicts ==
    [dataset : SupportedDatasets \cup OtherDatasets, height : Dims, width : Dims,
     roll : {0}, pitch : {0, 30}, vfov : {60}, vvp_abs : StoredVPs,
     gravity_file_name : {"gravity.h5"}]

(* PanoCam, perspective2d.utils.encode_bin: results named by call and arguments *)
Radians(deg) == <<"rad", deg>>
getRelativeHorizonLineFromAngles(elevation, roll, vfov, im_h, im_w) ==
    <<"horizon", elevation, roll, vfov, im_h, im_w>>
getRelativeVVP(elevation, roll, vfov, im_h, im_w) ==
    <<"vvp", elevation, roll, vfov, im_h, im_w>>
getAbsVVP(im_h, im_w, horizon, vvp) == <<"absvvp", im_h, im_w, horizon, vvp>>
getGravityField(im_h, im_w, absvvp) ==
    [kind |-> "getGravityField", im_h |-> im_h, im_w |-> im_w, absvvp |-> absvvp]
utils_encode_bin(gfield, n) == [kind |-> "binned", of |-> gfield, num_class |-> n]

\* read_hdf5(path): f["dataset"][:]
read_hdf5(path) == [kind |-> "hdf5", path |-> path, axes |-> <<0, 1, 2>>, dtype |-> "stored"]
\* ndarray.transpose(*perm)
TransposeStored(arr, perm) == [arr EXCEPT !.axes = [i \in 1 .. 3 |-> arr.axes[perm[i] + 1]]]
\* ndarray.astype(dtype)
AsType(arr, dtype) == [arr EXCEPT !.dtype = dtype]

None == [kind |-> "None"]

\* the materialized fields handed to to_tensor_from_field
Fields == {<<h, w, x>> : h \in Dims, w \in Dims, x \in -1 .. 0}

\* __init__: num_class by architecture, is_train, loss_type; and the call to come
InitTransform ==
    /\ is_train \in BOOLEAN
    /\ loss_type \in LossTypes
    /\ \E arch \in Architectures :
          num_class = IF arch = "PerspectiveNet" THEN 2 ELSE 4
    /\ \/ \E d \in DatasetDicts :
             request = [op |-> "get_input_label", dataset_dict |-> d]
       \/ \E h \in Dims, w \in Dims, vp \in VanishingPoints :
             request = [op |-> "absvvp_to_arrow", im_h |-> h, im_w |-> w, absvvp |-> vp]
       \/ \E h \in Dims, w \in Dims, vp \in VanishingPoints :
             request = [op |-> "to_tensor", im_h |-> h, im_w |-> w, absvvp |-> vp]
       \/ \E f \in Fields :
             request = [op |-> "to_tensor_from_field", im_h |-> f[1], im_w |-> f[2],
                        vp |-> <<f[3], 0, 1>>]
    /\ call = NoCall

\* a last branch that supplies a default vanishing point instead of raising
UnlistedDefault(d) ==
    [status |-> "ok", absvvp_bound |-> TRUE, absvvp |-> <<0, 0, 0>>, trace |-> <<>>]

\* get_input_label, the last branch of the ladder: raise NotImplementedError
Unlisted(d) ==
    [status |-> "NotImplementedError", absvvp_bound |-> FALSE, absvvp |-> <<>>,
     trace |-> <<>>]

\* get_input_label, the ladder over dataset_dict["dataset"]
Dispatch(d) ==
    IF d.dataset \in AngleDatasets THEN
        LET e == Radians(d.pitch)
            r == Radians(d.roll)
            f == Radians(d.vfov)
            horizon == getRelativeHorizonLineFromAngles(e, r, f, d.height, d.width)
            vvp == getRelativeVVP(e, r, f, d.height, d.width)
        IN  [status |-> "ok", absvvp_bound |-> TRUE,
             absvvp |-> getAbsVVP(d.height, d.width, horizon, vvp),
             trace |-> <<"getRelativeHorizonLineFromAngles", "getRelativeVVP", "getAbsVVP">>]
    ELSE IF d.dataset = "hypersim" THEN
        [status |-> "ok", absvvp_bound |-> TRUE, absvvp |-> d.vvp_abs, trace |-> <<>>]
    ELSE IF d.dataset \in WarpCropDatasets THEN
        [status |-> "ok", absvvp_bound |-> TRUE, absvvp |-> d.vvp_abs, trace |-> <<>>]
    ELSE IF d.dataset \in {"coco-pseudo"} THEN
        \* pass: absvvp stays unassigned
        [status |-> "ok", absvvp_bound |-> FALSE, absvvp |-> <<>>, trace |-> <<>>]
    ELSE IF d.dataset \in {"cities360_distort"} THEN
        [status |-> "ok", absvvp_bound |-> TRUE, absvvp |-> <<0, 0, 0>>, trace |-> <<>>]
    ELSE Unlisted(d)

\* a gate that synthesizes the field in training mode too
GateAlwaysSynthesizes(d, train, f) ==
    IF d.dataset \notin {"cities360_distort"} /\ f.absvvp_bound
    THEN [status |-> "ok", gfield_bound |-> TRUE,
          gfield |-> getGravityField(d.height, d.width, f.absvvp),
          trace |-> Append(f.trace, "getGravityField")]
    ELSE [status |-> "ok", gfield_bound |-> FALSE, gfield |-> None, trace |-> f.trace]

\* get_input_label, the is_train gate on gt_gfield_original
Gate(d, train, f) ==
    IF train THEN
        IF d.dataset \notin {"cities360_distort"}
        THEN [status |-> "ok", gfield_bound |-> TRUE, gfield |-> None, trace |-> f.trace]
        ELSE [status |-> "ok", gfield_bound |-> FALSE, gfield |-> None, trace |-> f.trace]
    ELSE
        IF d.dataset \notin {"cities360_distort"}
        THEN IF ~f.absvvp_bound
             THEN \* absvvp is read before any assignment
                  [status |-> "UnboundLocalError", gfield_bound |-> FALSE,
                   gfield |-> None, trace |-> f.trace]
             ELSE [status |-> "ok", gfield_bound |-> TRUE,
                   gfield |-> getGravityField(d.height, d.width, f.absvvp),
                   trace |-> Append(f.trace, "getGravityField")]
        ELSE [status |-> "ok", gfield_bound |-> FALSE, gfield |-> None, trace |-> f.trace]

\* get_input_label, the store-backed families, and the return
StoreBacked(d, f, g) ==
    IF d.dataset \in {"coco-pseudo"} THEN
        [status |-> "return", absvvp |-> <<0, 0, 0>>,
         gt_gfield_original |-> TransposeStored(read_hdf5(d.gravity_file_name), <<1, 2, 0>>),
         trace |-> Append(g.trace, "read_hdf5")]
    ELSE IF d.dataset \in {"cities360_distort"} THEN
        [status |-> "return", absvvp |-> <<0, 0, 0>>,
         gt_gfield_original |-> AsType(read_hdf5(d.gravity_file_name), "float32"),
         trace |-> Append(g.trace, "read_hdf5")]
    ELSE
        [status |-> "return", absvvp |-> f.absvvp, gt_gfield_original |-> g.gfield,
         trace |-> g.trace]

Raised(e, trace) ==
    [status |-> e, absvvp |-> <<>>, gt_gfield_original |-> None, trace |-> trace]

get_input_label(d) ==
    LET f == Dispatch(d) IN
    IF f.status # "ok" THEN Raised(f.status, f.trace)
    ELSE LET g == Gate(d, is_train, f) IN
         IF g.status # "ok" THEN Raised(g.status, g.trace)
         ELSE StoreBacked(d, f, g)

Sq(a) == a * a

\* a normalize that leaves the rows as they are
NoNormalize(v) == <<[num |-> v[1], den2 |-> 1], [num |-> v[2], den2 |-> 1]>>

\* sklearn.preprocessing.normalize on one row: each component is num / sqrt(den2);
\* a row of norm 0 is divided by 1
Normalize(v) ==
    LET n2 == Sq(v[1]) + Sq(v[2])
        d == IF n2 = 0 THEN 1 ELSE n2
    IN  <<[num |-> v[1], den2 |-> d], [num |-> v[2], den2 |-> d]>>

\* row * absvvp[2]
Scale(row, sc) == [c \in 1 .. 2 |-> [num |-> row[c].num * sc, den2 |-> row[c].den2]]

absvvp_to_arrow(im_h, im_w, absvvp) ==
    LET \* start[n] = (gridx, gridy) of the n-th pixel, row-major
        start == [n \in 0 .. (im_h * im_w - 1) |-> <<n % im_w, n \div im_w>>]
        arrow == [n \in 0 .. (im_h * im_w - 1) |->
                     Scale(Normalize(<<absvvp[1] - start[n][1], absvvp[2] - start[n][2]>>),
                           absvvp[3])]
    IN  \* arrow.reshape(im_h, im_w, 2)
        [y \in 0 .. (im_h - 1) |-> [x \in 0 .. (im_w - 1) |-> arrow[y * im_w + x]]]

\* torch.as_tensor(gfield.transpose(2, 0, 1).astype("float32"))
AsTensor(gfield) ==
    [kind |-> "tensor", dtype |-> "float32",
     data |-> [c \in 1 .. 2 |->
                 [y \in DOMAIN gfield |-> [x \in DOMAIN gfield[y] |-> gfield[y][x][c]]]]]

\* self.encode_bin(gfield)
encode_bin(gfield) == utils_encode_bin(gfield, num_class)

\* an encoder that bins whatever is not regression
EncodeElseBins(gfield) ==
    IF loss_type = "regression" THEN gfield ELSE encode_bin(gfield)

\* the loss_type ladder of to_tensor and to_tensor_from_field
Encode(gfield) ==
    IF loss_type = "regression" THEN gfield
    ELSE IF loss_type = "classification" THEN encode_bin(gfield)
    ELSE gfield

to_tensor(im_h, im_w, absvvp) == Encode(AsTensor(absvvp_to_arrow(im_h, im_w, absvvp)))

to_tensor_from_field(im_h, im_w, gfield) == Encode(AsTensor(gfield))

\* a call that returns value
Returned(value) == [status |-> "return", value |-> value]

GetInputLabel ==
    /\ call = NoCall
    /\ request.op = "get_input_label"
    /\ call' = [op |-> request.op, out |-> get_input_label(request.dataset_dict)]
    /\ UNCHANGED <<is_train, loss_type, num_class, request>>
    /\ UNCHANGED evalVars

AbsvvpToArrow ==
    /\ call = NoCall
    /\ request.op = "absvvp_to_arrow"
    /\ call' = [op |-> request.op,
                out |-> Returned(absvvp_to_arrow(request.im_h, request.im_w, request.absvvp))]
    /\ UNCHANGED <<is_train, loss_type, num_class, request>>
    /\ UNCHANGED evalVars

ToTensor ==
    /\ call = NoCall
    /\ request.op = "to_tensor"
    /\ call' = [op |-> request.op,
                out |-> Returned(to_tensor(request.im_h, request.im_w, request.absvvp))]
    /\ UNCHANGED <<is_train, loss_type, num_class, request>>
    /\ UNCHANGED evalVars

\* the field of a to_tensor_from_field request, as materialized by its producer
RequestField == absvvp_to_arrow(request.im_h, request.im_w, request.vp)

ToTensorFromField ==
    /\ call = NoCall
    /\ request.op = "to_tensor_from_field"
    /\ call' = [op |-> request.op,
                out |-> Returned(to_tensor_from_field(request.im_h, request.im_w,
                                                      RequestField))]
    /\ UNCHANGED <<is_train, loss_type, num_class, request>>
    /\ UNCHANGED evalVars

NextTransform ==
    \/ GetInputLabel
    \/ AbsvvpToArrow
    \/ ToTensor
    \/ ToTensorFromField

\* one GravityTransform, any mode and loss type
InitTransformOnly == InitEval(FALSE, DistCfgs, DistNamings) /\ InitTransform

SpecTransform == InitTransformOnly /\ [][NextTransform]_vars

(* ============================ properties =============================== *)
\* the sub-evaluators of the list share a task name
Collision ==
    \E i, j \in 1 .. Len(evaluators) : i < j /\ taskName[evaluators[i]] = taskName[evaluators[j]]

\* the place in the list of the last sub-evaluator that writes task name k
LastWriter(k) ==
    CHOOSE i \in 1 .. Len(evaluators) :
        /\ taskName[evaluators[i]] = k
        /\ \A j \in 1 .. Len(evaluators) : taskName[evaluators[j]] = k => j <= i

TaskNamesWritten == {taskName[evaluators[i]] : i \in 1 .. Len(evaluators)}

\* r holds, for every task name written, the partial record of its last writer
IsMergedRecord(r, pair) ==
    /\ DOMAIN r = TaskNamesWritten
    /\ \A k \in TaskNamesWritten : r[k] = <<evaluators[LastWriter(k)], pair>>

\* m holds, for every task name written, the partial metrics of its last writer
IsMergedMetrics(m, predictions) ==
    /\ DOMAIN m = TaskNamesWritten
    /\ \A k \in TaskNamesWritten : m[k] = <<evaluators[LastWriter(k)], predictions>>

\* s lays the buffers out by rank, each in its own order
IsRankMajor(s, buffers) ==
    /\ Len(s) = SumLen(buffers, NWorkers - 1)
    /\ \A v \in Workers : \A i \in 1 .. Len(buffers[v]) :
          s[SumLen(buffers, v - 1) + i] = buffers[v][i]

\* each worker's buffer as it was when it called the evaluate() the coordinator
\* has just reduced
AtCall == [v \in Workers |-> Head(called[v])]

\* C1: in a distributed run, the list the coordinator (rank 0) reduces has length
\* a_1 + ... + a_N and is the workers' buffers, as they were at their evaluate()
\* calls, laid out in rank order, each in its append order; every other worker's
\* evaluate() returns an empty mapping.
C1_RankMajorConcat ==
    _distributed =>
        \A w \in Workers :
            (pc[w] = "idle" /\ ret[w].kind = "dict") =>
                IF w = 0
                THEN /\ \A v \in Workers : called[v] # <<>>
                     /\ IsRankMajor(reduced[0], AtCall)
                ELSE ret[w].val = EmptyDict

C1_Witness ==
    /\ _distributed
    /\ \A w \in Workers : pc[w] = "idle" /\ ret[w].kind = "dict"
    /\ \A v \in Workers : called[v] # <<>>
    /\ Len(AtCall[0]) = 1 /\ Len(AtCall[1]) = 1
    /\ Len(reduced[0]) >= 2
    /\ reduced[0][1] # reduced[0][2]

\* C2: in a distributed round no worker returns from evaluate() before every
\* worker has entered evaluate() and handed its buffer to the gather; once one
\* worker has returned, every other worker has returned too or is free to; and
\* once the coordinator has returned it holds the metrics of every worker's full
\* buffer.
C2_NoPartialReport ==
    _distributed =>
        /\ \A w, v \in Workers : returned[w] <= arrived[v] /\ returned[w] <= sent[v]
        /\ \A w, v \in Workers :
              \/ returned[v] >= returned[w]
              \/ /\ returned[v] = returned[w] - 1
                 /\ pc[v] = "gather"
                 /\ \A u \in Workers : sent[u] >= sent[v]
        /\ (pc[0] = "idle" /\ ret[0].kind = "dict") =>
              /\ \A v \in Workers : called[v] # <<>>
              /\ \E full \in {reduced[0]} :
                    /\ IsRankMajor(full, AtCall)
                    /\ IsMergedMetrics(ret[0].val, full)

C2_Witness ==
    /\ _distributed
    /\ \A w \in Workers : returned[w] = 1 /\ pc[w] = "idle"
    /\ ret[0].kind = "dict"
    /\ Len(reduced[0]) = MaxExamples
    /\ \A v \in Workers : called[v] # <<>> /\ Len(AtCall[v]) >= 1

\* C7 as stated: sub-evaluators that share a task name make process() and
\* evaluate() raise, so no record is ever merged and no metrics are returned.
C7_CollisionRaises ==
    Collision => \A w \in Workers : _predictions[w] = <<>> /\ ret[w].kind # "dict"

\* C7 as the code has it: no call raises on a shared task name; the merged record
\* and the merged metrics hold, under the shared name, the value of the
\* sub-evaluator that comes last in the list.
C7_LastWriterWins ==
    \A w \in Workers :
        /\ ret[w].kind \in {"None", "dict", "AttributeError"}
        /\ \A i \in 1 .. Len(_predictions[w]) :
              \A k \in DOMAIN _predictions[w][i] :
                 _predictions[w][i][k][1] = evaluators[LastWriter(k)]
        /\ ret[w].kind = "dict" =>
              \A k \in DOMAIN ret[w].val : ret[w].val[k][1] = evaluators[LastWriter(k)]

C7_Witness ==
    /\ Collision
    /\ Len(_predictions[0]) >= 1
    /\ ret[0].kind = "dict"
    /\ Cardinality(DOMAIN ret[0].val) < Len(evaluators)

\* C9: after reset() and any process(batch) calls the buffer holds exactly one
\* record per (input, prediction) pair processed since that reset, in call order
\* then in-batch order, each the merge of the sub-evaluators' partial records.
C9_BufferIsLog ==
    \A w \in Workers :
        /\ Len(_predictions[w]) = Len(log[w])
        /\ \A i \in 1 .. Len(log[w]) : IsMergedRecord(_predictions[w][i], log[w][i])

C9_Witness ==
    /\ hasPredictions[0]
    /\ Len(log[0]) = 2
    /\ log[0][1] # log[0][2]
    /\ Len(evaluators) >= 2
    /\ returned[0] >= 1
    /\ ret[0].kind = "None"

\* C10: single-process evaluate() leaves the buffer as it is: a second evaluate()
\* with no reset()/process() in between returns normally and reduces the same
\* list, and a process() after evaluate() appends to the records already reduced.
C10_EvaluateKeepsBuffer ==
    [][ /\ (EvaluateLocal(0) /\ streak[0] >= 1) =>
              /\ ret'[0].kind = "dict"
              /\ reduced'[0] = reduced[0]
              /\ _predictions'[0] = _predictions[0]
        /\ \A inputs \in SeqsUpTo(Inputs, MaxBatch) :
              \A outputs \in [1 .. Len(inputs) -> Outputs] :
                 (process(0, inputs, outputs) /\ streak[0] >= 1) =>
                    /\ Len(_predictions'[0]) = Len(reduced[0]) + Len(inputs)
                    /\ SubSeq(_predictions'[0], 1, Len(reduced[0])) = reduced[0]
      ]_vars

C10_Witness ==
    /\ ~_distributed
    /\ streak[0] = 2
    /\ Len(reduced[0]) >= 1
    /\ _predictions[0] = reduced[0]

Range(f) == {f[i] : i \in DOMAIN f}

\* C3: for a dataset name outside the listed ones get_input_label raises
\* NotImplementedError in training and in evaluation mode, before any vanishing
\* point or field is computed or any store is read, and returns no value.
C3_UnlistedDatasetRaises ==
    (call.op = "get_input_label"
        /\ request.dataset_dict.dataset \notin SupportedDatasets) =>
            /\ call.out.status = "NotImplementedError"
            /\ call.out.trace = <<>>
            /\ call.out.absvvp = <<>>
            /\ call.out.gt_gfield_original = None

C3_Witness ==
    /\ call.op = "get_input_label"
    /\ request.dataset_dict.dataset \in OtherDatasets
    /\ ~is_train
    /\ call.out.status = "NotImplementedError"

StoreBackedDatasets == {"coco-pseudo", "cities360_distort"}

\* C4: for cities360_distort and coco-pseudo get_input_label returns, in training
\* and in evaluation mode alike, vanishing point (0, 0, 0) with a field read from
\* the store, and does not fail.
C4_StoreBackedInEitherMode ==
    (call.op = "get_input_label"
        /\ request.dataset_dict.dataset \in StoreBackedDatasets) =>
            /\ call.out.status = "return"
            /\ call.out.absvvp = <<0, 0, 0>>
            /\ call.out.gt_gfield_original.kind = "hdf5"
            /\ "read_hdf5" \in Range(call.out.trace)

VanishingPointDatasets == AngleDatasets \cup {"hypersim"} \cup WarpCropDatasets

\* C5: for an angle-labeled or stored-vanishing-point dataset get_input_label
\* returns the vanishing point with a null field and no field synthesis in
\* training mode, and with the field synthesized from that vanishing point and the
\* example's height and width in evaluation mode.
C5_FieldOnlyInEvaluation ==
    (call.op = "get_input_label"
        /\ request.dataset_dict.dataset \in VanishingPointDatasets) =>
            LET d == request.dataset_dict
                vp == Dispatch(d).absvvp
            IN  /\ call.out.status = "return"
                /\ call.out.absvvp = vp
                /\ "read_hdf5" \notin Range(call.out.trace)
                /\ IF is_train
                   THEN /\ call.out.gt_gfield_original = None
                        /\ "getGravityField" \notin Range(call.out.trace)
                   ELSE /\ call.out.gt_gfield_original.kind = "getGravityField"
                        /\ call.out.gt_gfield_original.im_h = d.height
                        /\ call.out.gt_gfield_original.im_w = d.width
                        /\ call.out.gt_gfield_original.absvvp = vp
                        /\ "getGravityField" \in Range(call.out.trace)

C5_Witness ==
    /\ call.op = "get_input_label"
    /\ request.dataset_dict.dataset = "sun360"
    /\ request.dataset_dict.pitch = 30
    /\ ~is_train
    /\ call.out.gt_gfield_original.kind = "getGravityField"

EncodeCalls == {"to_tensor", "to_tensor_from_field"}

\* the field a to_tensor / to_tensor_from_field request encodes
RequestedField ==
    IF request.op = "to_tensor"
    THEN absvvp_to_arrow(request.im_h, request.im_w, request.absvvp)
    ELSE RequestField

\* C6 as stated: with a loss_type other than "regression" and "classification",
\* to_tensor and to_tensor_from_field fail and return no field.
C6_OtherLossTypeRaises ==
    (call.op \in EncodeCalls /\ loss_type \notin {"regression", "classification"}) =>
        call.out.status # "return"

\* C6 as the code has it: with such a loss_type both calls return the field in
\* channel-first float32 layout, not binned, as they do for "regression".
C6_OtherLossTypePassesThrough ==
    (call.op \in EncodeCalls /\ loss_type \notin {"regression", "classification"}) =>
        /\ call.out.status = "return"
        /\ call.out.value.kind = "tensor"
        /\ call.out.value = AsTensor(RequestedField)

C6_Witness ==
    /\ call.op = "to_tensor_from_field"
    /\ loss_type = "l1"
    /\ call.out.status = "return"
    /\ request.im_h = 2 /\ request.im_w = 2

\* the squared length of a vector with components num / sqrt(den2), times den2
SqLenTimesDen(v) == Sq(v[1].num) + Sq(v[2].num)

Pixels == {<<x, y>> \in (0 .. MaxDim) \X (0 .. MaxDim) :
              call.op = "absvvp_to_arrow" /\ x < request.im_w /\ y < request.im_h}

\* C8 as stated: with a nonzero scale every vector of the arrow map has unit
\* length, except at a pixel that coincides with (x, y), where it is zero.
C8_UnitLength ==
    (call.op = "absvvp_to_arrow" /\ request.absvvp[3] # 0) =>
        \A px \in Pixels :
            LET v == call.out.value[px[2]][px[1]] IN
            IF px = <<request.absvvp[1], request.absvvp[2]>>
            THEN v[1].num = 0 /\ v[2].num = 0
            ELSE v[1].den2 = v[2].den2 /\ SqLenTimesDen(v) = v[1].den2

\* C8 as the code has it: every vector has length |scale| (unit length only when
\* scale is 1 or -1), except at a pixel that coincides with (x, y), where it is zero.
C8_LengthIsScale ==
    (call.op = "absvvp_to_arrow" /\ request.absvvp[3] # 0) =>
        \A px \in Pixels :
            LET v == call.out.value[px[2]][px[1]] IN
            IF px = <<request.absvvp[1], request.absvvp[2]>>
            THEN v[1].num = 0 /\ v[2].num = 0
            ELSE /\ v[1].den2 = v[2].den2
                 /\ SqLenTimesDen(v) = Sq(request.absvvp[3]) * v[1].den2

C8_Witness ==
    /\ call.op = "absvvp_to_arrow"
    /\ request.absvvp = <<1, 1, 2>>
    /\ request.im_h = 2 /\ request.im_w = 2
    /\ call.out.value[1][1][1].num = 0
    /\ call.out.value[0][0][1].num = 2
====
